---- MODULE Spec2Model ----
(***************************************************************************)
(* e-Heart Python Framework: the simulation engine (eheart/_engine.py),    *)
(* the model's derivative evaluation (eheart/_model.py) and the commands   *)
(* of the server session built on them (eheart/server/_session.py).        *)
(*                                                                         *)
(* Times, step sizes and variable values are floats in the program; they   *)
(* are modelled by small naturals.  The adaptive stepper (scipy's LSODA)   *)
(* is outside the repository: a step either fails with a message or moves  *)
(* the stepper's time forward by a positive amount, and the values it      *)
(* produces are any vector with the dimension of its seed.                 *)
(***************************************************************************)
EXTENDS Integers, Sequences, FiniteSets, TLC

\* ------------------------------------------------------------------ bounds
\* Largest target time of an advance, and largest time given to restart/eval.
MaxTime == 2
\* Values of differential variables range over 0..MaxVal.
MaxVal == 1
\* One internal stepper step moves the stepper's time by 1..MaxDelta.
MaxDelta == 2
\* Step bounds (init_step, min_step, max_step) given to restart: 1..MaxBound.
MaxBound == 1

\* --------------------------------------------------------- program values
\* Python's None, for an omitted numeric argument or an unset init_step.
None == -1
\* numpy.inf, the default max_step.
Inf == 1000
\* None for an omitted vector argument.
NoneVec == <<None>>

\* The ordered names of the model's differential variables (Model._diffvars),
\* here a model that declares two of them.
diffvars == <<"a", "b">>
\* A name that the model does not declare.
Undeclared == "q"

Times == 0..MaxTime
Values == 0..MaxVal
Deltas == 1..MaxDelta
Bounds == 1..MaxBound
Messages == {"istate", "convergence"}

\* Vectors a caller may hand to restart or eval as y: the declared length,
\* one entry short, one entry long (no check is made on it).
ArgVecs == {[i \in 1..k |-> MaxVal] : k \in (Len(diffvars) - 1)..(Len(diffvars) + 1)}
\* Mappings from names to values handed to set_diffvar_values.
Declared == {diffvars[i] : i \in 1..Len(diffvars)}
VDicts == UNION {[D -> Values] : D \in SUBSET Declared}
              \cup UNION {[D \cup {Undeclared} -> {MaxVal}] : D \in SUBSET Declared}

VARIABLES
    t,             \* Engine._t
    y,             \* Engine._y
    init_step,     \* Engine._init_step
    min_step,      \* Engine._min_step
    max_step,      \* Engine._max_step
    solver,        \* Engine._solver
    ts,            \* Engine._ts (<<>> before the first solve_ivp)
    interpolants,  \* Engine._interpolants
    model,         \* the Model: which caller its attributes were last computed for
    pc,            \* "idle", or "loop" inside solve_ivp's while loop
    call,          \* the running or last call: operation, target time, outcome
    bound,         \* which of Session.model and Session.engine exist
    restart_needed, \* Session.restart_needed, "unset" before its first assignment
    watching,      \* Session.watching
    solving,       \* the SOLVE_IVP being handled: its position and parameters
    since_built,   \* history: what commands altered since a stepper was last constructed
    command,       \* the command being processed, or processed last
    response,      \* the response to the last command, or the exception that escaped
    model_diffvars, \* Session.model._diffvars, what Session.model.diffvars returns
    parked         \* a second session of the same server, while the first one's
                   \* command is processed: all of the above, for that session

\* The engine, and the model it evaluates.
evars == <<t, y, init_step, min_step, max_step, solver, ts, interpolants, model, pc, call>>
\* The session.
svars == <<bound, restart_needed, watching, solving, since_built, command, response,
           model_diffvars, parked>>
vars == <<evars, svars>>

\* Engine._solver = None.
NoSolver == [status |-> "none", t |-> 0, y |-> <<>>,
             first_step |-> None, min_step |-> 0, max_step |-> Inf]

\* A value or time the stepper chose for one of its own derivative evaluations.
Internal == -2

\* An attribute of the model that holds no value yet.
Unset == -3

\* The model after Model.__init__: every differential variable is diffvar(),
\* which has no value and the derivative 0, and calc_ode was never called.
\* The record keeps, for the model object, the values of its differential
\* variables (y, in declaration order), the time calc_ode last ran with (t),
\* who ran it, the der field of each differential variable (0 and never
\* assigned: "zero", assigned by the latest calc_ode: "assigned", assigned
\* by an earlier one: "stale"), and the vector eval_ode returned last, entry
\* by entry the der field it was read from.
NewModel ==
    [computed_for |-> "nobody", t |-> Unset, y |-> [i \in 1..Len(diffvars) |-> Unset],
     der |-> [i \in 1..Len(diffvars) |-> "zero"], returned |-> <<>>]

\* tn is the time argument of a running solve_ivp and of the last restart.
Call(op, tn, outcome, message) ==
    [op |-> op, tn |-> tn, outcome |-> outcome, message |-> message]

\* No SOLVE_IVP is being handled.
NotSolving == [at |-> "ready", tprev |-> None, tn |-> None, output_interval |-> None]

\* No command was processed yet.
NoResponse == [type |-> "none"]

\* Python values that are handed between the model and the session: a
\* scalar of some type, a list or tuple of values, and None.
PyScalar(type, v) == [py |-> type, v |-> v, items |-> <<>>]
PyItems(type, items) == [py |-> type, v |-> None, items |-> items]
PyNone == [py |-> "NoneType", v |-> None, items |-> <<>>]

\* A session as Session.__init__ leaves it, with the engine fields at the
\* values Engine.__init__ would give them: no model, no engine, no flag yet.
NewSession ==
    [t |-> 0, y |-> [i \in 1..Len(diffvars) |-> 0],
     init_step |-> None, min_step |-> 0, max_step |-> Inf,
     solver |-> NoSolver, ts |-> <<>>, interpolants |-> <<>>, model |-> NewModel,
     pc |-> "idle", call |-> Call("init", None, "ok", ""),
     bound |-> "nothing", restart_needed |-> "unset", watching |-> <<>>,
     solving |-> NotSolving, since_built |-> {}, command |-> "none",
     response |-> NoResponse, model_diffvars |-> PyNone]

\* ------------------------------------- Engine.__init__ and Session.__init__
Init ==
    /\ t = 0
    /\ y = [i \in 1..Len(diffvars) |-> 0]
    /\ init_step = None
    /\ min_step = 0
    /\ max_step = Inf
    /\ solver = NoSolver
    /\ ts = <<>>
    /\ interpolants = <<>>
    /\ model = NewModel
    /\ pc = "idle"
    /\ call = Call("init", None, "ok", "")
    /\ bound = "nothing"
    /\ restart_needed = "unset"
    /\ watching = <<>>
    /\ solving = NotSolving
    /\ since_built = {}
    /\ command = "none"
    /\ response = NoResponse
    /\ model_diffvars = PyNone
    /\ parked = NewSession

\* ------------------------------------------------- Engine.set_diffvar_values
\* The loop writes vdict[var] to y[i] for each declared var in vdict, in
\* order; y[i] raises IndexError when y is shorter than i.  Every failing
\* index is beyond every index of y, so all writes inside y happen first.
\* A faulty variant: the value is appended instead of assigned.
SetValuesAppends(yy, vdict) ==
    IF DOMAIN vdict \cap {diffvars[i] : i \in 1..Len(diffvars)} = {} THEN yy
    ELSE Append(yy, vdict[CHOOSE n \in DOMAIN vdict \cap {diffvars[i] : i \in 1..Len(diffvars)} : TRUE])

\* A faulty variant: the variables that are not named are reset to 0.
SetValuesResetsOthers(yy, vdict) ==
    [i \in 1..Len(yy) |->
        IF i <= Len(diffvars) /\ diffvars[i] \in DOMAIN vdict
        THEN vdict[diffvars[i]] ELSE 0]

SetValues(yy, vdict) ==
    [i \in 1..Len(yy) |->
        IF i <= Len(diffvars) /\ diffvars[i] \in DOMAIN vdict
        THEN vdict[diffvars[i]] ELSE yy[i]]

SetRaises(yy, vdict) ==
    \E i \in 1..Len(diffvars) : diffvars[i] \in DOMAIN vdict /\ i > Len(yy)

set_diffvar_values(vdict) ==
    /\ pc = "idle"
    /\ y' = SetValues(y, vdict)
    /\ call' = Call("set_diffvar_values", None,
                    IF SetRaises(y, vdict) THEN "IndexError" ELSE "ok", "")
    /\ UNCHANGED <<t, init_step, min_step, max_step, solver, ts, interpolants, model, pc>>

\* ------------------------------------------------- Engine.get_diffvar_values
\* y[i] raises IndexError when y has no entry for some declared variable.
GetRaises(yy) == Len(yy) < Len(diffvars)

\* The returned dictionary, when nothing is raised.
GetValues(yy) ==
    [n \in Declared |-> yy[CHOOSE i \in 1..Len(diffvars) : diffvars[i] = n]]

\* ------------------------------------------------------------- Engine.restart
\* A faulty variant of the test: "if x:", which takes 0 for an omitted argument.
SuppliedIfTruthy(arg, old) == IF arg = None \/ arg = 0 THEN old ELSE arg

\* "if x is not None: self._x = x" for each of the five arguments.
Supplied(arg, old) == IF arg = None THEN old ELSE arg
SuppliedVec(arg, old) == IF arg = NoneVec THEN old ELSE arg

\* Lines 180-181, 182-183, 184-185, 186-187, 188-189.
restart_t(ta) == t' = Supplied(ta, t)
restart_y(ya) == y' = SuppliedVec(ya, y)
restart_init_step(ia) == init_step' = Supplied(ia, init_step)
restart_min_step(mina) == min_step' = Supplied(mina, min_step)
restart_max_step(maxa) == max_step' = Supplied(maxa, max_step)

restart(ta, ya, ia, mina, maxa) ==
    /\ pc = "idle"
    /\ restart_t(ta)
    /\ restart_y(ya)
    /\ restart_init_step(ia)
    /\ restart_min_step(mina)
    /\ restart_max_step(maxa)
    /\ solver' = NoSolver
    /\ call' = Call("restart", ta, "ok", "")
    /\ UNCHANGED <<ts, interpolants, model, pc>>

\* ------------------------------------------------------------ Model.eval_ode
\* setattr(self, self._diffvars[i], diffvar(y[i])) for i in range(len(y)):
\* self._diffvars[i] raises IndexError once i passes the declared variables,
\* after the declared ones were written; otherwise calc_ode(t) runs.
EvalOdeRaises(yy) == Len(yy) > Len(diffvars)

\* A faulty variant of the loop: the values are written into the existing
\* variables, whose der fields stay.
RenewedInPlace(der, yy) == der

\* Lines 66-67: each of the first len(y) variables becomes a new
\* diffvar(y[i]), whose der is 0 (DifferentialVariable.__init__); the
\* others stay the objects they were.
Renewed(der, yy) ==
    [i \in 1..Len(diffvars) |-> IF i <= Len(yy) THEN "zero" ELSE der[i]]

\* What an earlier calc_ode assigned is, for a new evaluation, left over.
LeftOver(der) ==
    [i \in 1..Len(diffvars) |-> IF der[i] = "assigned" THEN "stale" ELSE der[i]]

\* eval_ode with a calc_ode that assigns the derivatives of the variables
\* in assigns.  The first len(y) differential variables are overwritten,
\* the others keep what they held; calc_ode(t) then computes the derivatives
\* from them, unless the loop raised; lines 69-71 return the der fields of
\* the first len(y) variables.
EvalOdeWith(m, caller, tt, yy, assigns) ==
    LET der == [i \in 1..Len(diffvars) |->
                    IF ~EvalOdeRaises(yy) /\ i \in assigns THEN "assigned"
                    ELSE Renewed(LeftOver(m.der), yy)[i]]
    IN  [computed_for |-> IF EvalOdeRaises(yy) THEN m.computed_for ELSE caller,
         t |-> IF EvalOdeRaises(yy) THEN m.t ELSE tt,
         y |-> [i \in 1..Len(diffvars) |-> IF i <= Len(yy) THEN yy[i] ELSE m.y[i]],
         der |-> der,
         returned |-> IF EvalOdeRaises(yy) THEN <<>> ELSE [i \in 1..Len(yy) |-> der[i]]]

\* eval_ode of a model whose calc_ode assigns every derivative.
EvalOde(m, caller, tt, yy) == EvalOdeWith(m, caller, tt, yy, 1..Len(diffvars))

\* ------------------------------------------------------------- Engine.solve_ivp
\* LSODA(self.model.eval_ode, self._t, self._y, np.inf,
\*       self._init_step, self._min_step, self._max_step, ...)
\* A faulty variant of the construction: the step bounds are not passed on.
NewSolverDefaultSteps ==
    [status |-> "running", t |-> t, y |-> y,
     first_step |-> None, min_step |-> 0, max_step |-> Inf]

\* The stepper holds its own time and state vector, which start at the seed.
NewSolver ==
    [status |-> "running", t |-> t, y |-> y,
     first_step |-> init_step, min_step |-> min_step, max_step |-> max_step]

\* The stepper's state vector after a step: values of its own choosing, in
\* the dimension it was seeded with.
Stepped(yy) == [i \in 1..Len(yy) |-> Internal]

\* The vectors a dense output of dimension n may return.
Outputs(n) == {[i \in 1..n |-> v] : v \in Values}

\* Faulty variants of the cut: s[-3:], and no cut at all.
LastThree(s) == IF Len(s) <= 3 THEN s ELSE SubSeq(s, Len(s) - 2, Len(s))
KeepAll(s) == s

\* s[-2:] and s[-1:]
LastTwo(s) == IF Len(s) <= 2 THEN s ELSE SubSeq(s, Len(s) - 1, Len(s))
LastOne(s) == IF Len(s) <= 1 THEN s ELSE SubSeq(s, Len(s), Len(s))
\* s[-1]
Last(s) == s[Len(s)]

\* A faulty variant of the test of line 130: a stepper is built on every call.
AlwaysBuild == TRUE

\* Line 130: self._solver is None.
HasNoSolver == solver.status = "none"

\* Lines 130-140: build the stepper, or cut the history.
solve_ivp_begin(tn) ==
    /\ pc = "idle"
    /\ IF HasNoSolver
       THEN /\ solver' = NewSolver
            /\ ts' = <<t>>
            /\ interpolants' = <<>>
       ELSE /\ solver' = solver
            /\ ts' = LastTwo(ts)
            /\ interpolants' = LastOne(interpolants)
    /\ pc' = "loop"
    /\ call' = Call("solve_ivp", tn, "running", "")
    /\ UNCHANGED <<t, y, init_step, min_step, max_step, model>>

\* The stepper can take a step: it has not failed before (OdeSolver.step
\* raises RuntimeError on a failed solver), and eval_ode accepts its vector.
CanStep == solver.status = "running" /\ ~EvalOdeRaises(solver.y)

\* A faulty variant of the iteration: the engine's time follows each step.
step_ok_commits(d) ==
    /\ pc = "loop"
    /\ Last(ts) < call.tn
    /\ CanStep
    /\ solver' = [solver EXCEPT !.t = @ + d, !.y = Stepped(@)]
    /\ ts' = Append(ts, solver.t + d)
    /\ interpolants' = Append(interpolants, [t_old |-> solver.t, t |-> solver.t + d])
    /\ model' = EvalOde(model, "stepper", Internal, Stepped(solver.y))
    /\ t' = solver.t + d
    /\ UNCHANGED <<y, init_step, min_step, max_step, pc, call>>

\* A faulty variant of line 146: the engine's time is recorded, not the
\* stepper's.
step_ok_records_engine_time(d) ==
    /\ pc = "loop"
    /\ Last(ts) < call.tn
    /\ CanStep
    /\ solver' = [solver EXCEPT !.t = @ + d, !.y = Stepped(@)]
    /\ ts' = Append(ts, t)
    /\ interpolants' = Append(interpolants, [t_old |-> solver.t, t |-> solver.t + d])
    /\ model' = EvalOde(model, "stepper", Internal, Stepped(solver.y))
    /\ UNCHANGED <<t, y, init_step, min_step, max_step, pc, call>>

\* Lines 142-148, one iteration in which step() returns no message.
step_ok(d) ==
    /\ pc = "loop"
    /\ Last(ts) < call.tn
    /\ CanStep
    /\ solver' = [solver EXCEPT !.t = @ + d, !.y = Stepped(@)]
    /\ ts' = Append(ts, solver.t + d)
    /\ interpolants' = Append(interpolants, [t_old |-> solver.t, t |-> solver.t + d])
    /\ model' = EvalOde(model, "stepper", Internal, Stepped(solver.y))
    /\ UNCHANGED <<t, y, init_step, min_step, max_step, pc, call>>

\* Lines 143-145: step() returns a message, SolverError(message) is raised.
step_fail(message) ==
    /\ pc = "loop"
    /\ Last(ts) < call.tn
    /\ CanStep
    /\ solver' = [solver EXCEPT !.status = "failed"]
    /\ model' = EvalOde(model, "stepper", Internal, Stepped(solver.y))
    /\ pc' = "idle"
    /\ call' = Call("solve_ivp", None, "SolverError", message)
    /\ UNCHANGED <<t, y, init_step, min_step, max_step, ts, interpolants>>

\* Line 143: step() itself raises, on a stepper that failed before
\* (RuntimeError) or whose vector eval_ode rejects (IndexError).
step_raises ==
    /\ pc = "loop"
    /\ Last(ts) < call.tn
    /\ ~CanStep
    /\ model' = IF solver.status = "running"
                THEN EvalOde(model, "stepper", Internal, Stepped(solver.y))
                ELSE model
    /\ pc' = "idle"
    /\ call' = Call("solve_ivp", None,
                    IF solver.status = "running" THEN "IndexError" ELSE "RuntimeError", "")
    /\ UNCHANGED <<t, y, init_step, min_step, max_step, solver, ts, interpolants>>

\* A faulty variant of line 150: the time the stepper reached is committed.
StepperTime(tn) == Last(ts)

\* Line 150: the time solve_ivp commits, self._t = tn.
CommittedTime(tn) == tn

\* Lines 150-153, reached when the loop condition is false:
\* self._t = tn, then self._interpolants[-1](tn), which raises IndexError
\* on an empty list and otherwise yields a vector of the stepper's dimension.
solve_ivp_end ==
    /\ pc = "loop"
    /\ ~(Last(ts) < call.tn)
    /\ t' = CommittedTime(call.tn)
    /\ IF interpolants = <<>>
       THEN /\ y' = y
            /\ call' = Call("solve_ivp", None, "IndexError", "")
       ELSE /\ y' \in Outputs(Len(solver.y))
            /\ call' = Call("solve_ivp", None, "ok", "")
    /\ pc' = "idle"
    /\ UNCHANGED <<init_step, min_step, max_step, solver, ts, interpolants, model>>

\* ----------------------------------------------------------------- Engine.eval
\* A faulty variant: the defaulted t and y are stored in the engine.
eval_rebinds(ta, ya, returns) ==
    /\ pc = "idle"
    /\ t' = Supplied(ta, t)
    /\ y' = SuppliedVec(ya, y)
    /\ model' = EvalOde(model, "eval", Supplied(ta, t), SuppliedVec(ya, y))
    /\ call' = Call("eval", None,
                    IF EvalOdeRaises(SuppliedVec(ya, y)) THEN "IndexError"
                    ELSE IF returns THEN "ok" ELSE "raised", "")
    /\ UNCHANGED <<init_step, min_step, max_step, solver, ts, interpolants, pc>>

\* A faulty variant: t and y are taken from the arguments only when both are given.
eval_defaults_together(ta, ya, returns) ==
    /\ pc = "idle"
    /\ model' = IF ta = None \/ ya = NoneVec
                THEN EvalOde(model, "eval", t, y)
                ELSE EvalOde(model, "eval", ta, ya)
    /\ call' = Call("eval", None,
                    IF EvalOdeRaises(IF ta = None \/ ya = NoneVec THEN y ELSE ya) THEN "IndexError"
                    ELSE IF returns THEN "ok" ELSE "raised", "")
    /\ UNCHANGED <<t, y, init_step, min_step, max_step, solver, ts, interpolants, pc>>

\* t and y default to the engine's; eval_ode(t, y); then func(model), which
\* returns (returns = TRUE) or raises.
eval(ta, ya, returns) ==
    /\ pc = "idle"
    /\ model' = EvalOde(model, "eval", Supplied(ta, t), SuppliedVec(ya, y))
    /\ call' = Call("eval", None,
                    IF EvalOdeRaises(SuppliedVec(ya, y)) THEN "IndexError"
                    ELSE IF returns THEN "ok" ELSE "raised", "")
    /\ UNCHANGED <<t, y, init_step, min_step, max_step, solver, ts, interpolants, pc>>

\* ------------------------------------------------- Session._eval_model_var
\* engine.eval(lambda, parameter.t, parameter.y) with both always given;
\* any exception becomes a failure response.
eval_model_var(ta, ya, returns) ==
    /\ pc = "idle"
    /\ model' = EvalOde(model, "eval", ta, ya)
    /\ call' = Call("EVAL_MODEL_VAR", None,
                    IF EvalOdeRaises(ya) \/ ~returns THEN "failure" ELSE "ok", "")
    /\ UNCHANGED <<t, y, init_step, min_step, max_step, solver, ts, interpolants, pc>>

\* ------------------------------------------------------------ the callers
\* One stepper iteration or the end of solve_ivp.
Stepping ==
    \/ \E d \in Deltas : step_ok(d)
    \/ \E message \in Messages : step_fail(message)
    \/ step_raises
    \/ solve_ivp_end

\* A program that uses an Engine directly: the session is not involved.
NoSession == UNCHANGED svars

\* A caller of the engine that sets values, restarts with any t and y, and
\* advances, and that leaves the step bounds as constructed.
Next ==
    \/ \E vdict \in VDicts : set_diffvar_values(vdict) /\ NoSession
    \/ \E ta \in {None} \cup Times, ya \in {NoneVec} \cup ArgVecs :
            restart(ta, ya, None, None, None) /\ NoSession
    \/ \E tn \in Times : solve_ivp_begin(tn) /\ NoSession
    \/ Stepping /\ NoSession

Spec == Init /\ [][Next]_vars

\* A caller that restarts with any of the five arguments, every vector it
\* hands over having the declared length, and that sets values and advances.
FullVec == [i \in 1..Len(diffvars) |-> MaxVal]

NextSteps ==
    \/ \E D \in SUBSET Declared : set_diffvar_values([n \in D |-> MaxVal]) /\ NoSession
    \/ \E ta \in {None} \cup Times, ya \in {NoneVec, FullVec},
          ia \in {None} \cup Bounds, mina \in {None, MaxBound}, maxa \in {None, MaxBound} :
            restart(ta, ya, ia, mina, maxa) /\ NoSession
    \/ \E tn \in Times : solve_ivp_begin(tn) /\ NoSession
    \/ Stepping /\ NoSession

SpecSteps == Init /\ [][NextSteps]_vars

\* A caller that evaluates callbacks on an engine it restarts and advances;
\* the times it evaluates at: none given, 0, or the largest.
EvalTimes == {None, 0, MaxTime}

NextEval ==
    \/ set_diffvar_values([n \in {diffvars[1]} |-> MaxVal]) /\ NoSession
    \/ \E ta \in {None, MaxTime}, ya \in {NoneVec} \cup ArgVecs :
            restart(ta, ya, None, None, None) /\ NoSession
    \/ solve_ivp_begin(MaxTime) /\ NoSession
    \/ Stepping /\ NoSession
    \/ \E ta \in EvalTimes, ya \in {NoneVec} \cup ArgVecs, returns \in BOOLEAN :
            eval(ta, ya, returns) /\ NoSession
    \/ \E ta \in {0, MaxTime}, ya \in ArgVecs, returns \in BOOLEAN :
            eval_model_var(ta, ya, returns) /\ NoSession

SpecEval == Init /\ [][NextEval]_vars

\* ==================================================================== Session
\* StatusResponse with success = True, and with success = False and str(err).
Success == [type |-> "StatusResponse", success |-> TRUE, message |-> ""]
Failure(message) == [type |-> "StatusResponse", success |-> FALSE, message |-> message]
\* No response: the exception left Session.process, and with it the
\* "async for" loop of Session.main.
Escaped(exception) == [type |-> "escaped", exception |-> exception]

\* Session.main hands the next message to process: the loop is running and
\* the response to the previous command was sent.
Serving == solving.at = "ready" /\ response.type = "none" /\ pc = "idle"

\* self.engine exists; self.engine.model is self.model ("both") or an earlier
\* model ("apart", after an INIT that failed in Engine(...)).
HasEngine == bound \in {"both", "apart"}
HasModel == bound # "nothing"

\* InitParam.options and ChangeTimeParam.options, a map from names to
\* doubles that is passed on as keyword arguments: nothing, all three step
\* bounds, or a name that is no parameter of the callee.
NoOptions == [init_step |-> None, min_step |-> None, max_step |-> None, unknown |-> FALSE]
OptionMaps ==
    {NoOptions,
     [init_step |-> MaxBound, min_step |-> MaxBound, max_step |-> MaxBound, unknown |-> FALSE],
     [init_step |-> None, min_step |-> None, max_step |-> None, unknown |-> TRUE]}

\* A default of Engine.__init__ for an option that is not given.
OrDefault(arg, default) == IF arg = None THEN default ELSE arg

\* ------------------------------------------------------------- Session._init
\* A faulty variant: the engine is created at time 0 whatever t is given.
INIT_at_zero(resolves, ta, options) ==
    /\ Serving
    /\ command' = "INIT"
    /\ resolves /\ ~options.unknown
    /\ model' = NewModel
    /\ t' = 0
    /\ y' = [i \in 1..Len(diffvars) |-> 0]
    /\ init_step' = OrDefault(options.init_step, None)
    /\ min_step' = OrDefault(options.min_step, 0)
    /\ max_step' = OrDefault(options.max_step, Inf)
    /\ solver' = NoSolver
    /\ ts' = <<>>
    /\ interpolants' = <<>>
    /\ call' = Call("init", None, "ok", "")
    /\ bound' = "both"
    /\ restart_needed' = "False"
    /\ since_built' = {}
    /\ response' = Success
    /\ UNCHANGED <<pc, watching, solving>>
    /\ model_diffvars' = PyItems("tuple", diffvars)
    /\ UNCHANGED parked

\* Lines 86-98.  The model class is resolved and instantiated (resolves), or
\* that raises; then Engine(self.model, parameter.t, **parameter.options),
\* which raises TypeError on an unknown option after self.model was replaced.
INIT(resolves, ta, options) ==
    /\ Serving
    /\ command' = "INIT"
    /\ IF ~resolves
       THEN /\ response' = Failure("ImportError")
            /\ UNCHANGED <<evars, bound, restart_needed, since_built>>
       ELSE IF options.unknown
       THEN /\ response' = Failure("TypeError")
            /\ bound' = IF HasEngine THEN "apart" ELSE "model"
            /\ UNCHANGED <<evars, restart_needed, since_built>>
       ELSE /\ model' = NewModel
            /\ t' = ta
            /\ y' = [i \in 1..Len(diffvars) |-> 0]
            /\ init_step' = OrDefault(options.init_step, None)
            /\ min_step' = OrDefault(options.min_step, 0)
            /\ max_step' = OrDefault(options.max_step, Inf)
            /\ solver' = NoSolver
            /\ ts' = <<>>
            /\ interpolants' = <<>>
            /\ call' = Call("init", None, "ok", "")
            /\ bound' = "both"
            /\ restart_needed' = "False"
            /\ since_built' = {}
            /\ response' = Success
            /\ UNCHANGED pc
    /\ UNCHANGED <<watching, solving>>
    /\ model_diffvars' = IF resolves THEN PyItems("tuple", diffvars) ELSE model_diffvars
    /\ UNCHANGED parked

\* --------------------------------------------------- Session._set_diffvar_val
\* A faulty variant: the values are written and the flag is left as it is.
SET_DIFFVAR_VAL_no_flag(valmap) ==
    /\ Serving
    /\ command' = "SET_DIFFVAR_VAL"
    /\ IF HasEngine
       THEN /\ set_diffvar_values(valmap)
            /\ since_built' = since_built \cup {"diffvar"}
            /\ response' = IF call'.outcome = "ok" THEN Success ELSE Failure(call'.outcome)
       ELSE /\ response' = Failure("AttributeError")
            /\ UNCHANGED <<evars, since_built>>
    /\ UNCHANGED <<bound, restart_needed, watching, solving>>
    /\ UNCHANGED <<model_diffvars, parked>>

\* Lines 107-116: self.restart_needed = True comes first, then
\* self.engine.set_diffvar_values(parameter.valmap).
SET_DIFFVAR_VAL(valmap) ==
    /\ Serving
    /\ command' = "SET_DIFFVAR_VAL"
    /\ restart_needed' = "True"
    /\ IF HasEngine
       THEN /\ set_diffvar_values(valmap)
            /\ since_built' = since_built \cup {"diffvar"}
            /\ response' = IF call'.outcome = "ok" THEN Success ELSE Failure(call'.outcome)
       ELSE /\ response' = Failure("AttributeError")
            /\ UNCHANGED <<evars, since_built>>
    /\ UNCHANGED <<bound, watching, solving>>
    /\ UNCHANGED <<model_diffvars, parked>>

\* ------------------------------ Session._get_diffvar_name, _get_current_val
\* Lines 121-123, outside any try: self.model.diffvars.
GET_DIFFVAR_NAME ==
    /\ Serving
    /\ command' = "GET_DIFFVAR_NAME"
    /\ response' = IF ~HasModel THEN Escaped("AttributeError")
                   ELSE IF model_diffvars.py # "tuple" THEN Escaped("TypeError")
                   ELSE [type |-> "DiffvarNameResponse", names |-> model_diffvars.items]
    /\ UNCHANGED <<evars, bound, restart_needed, watching, solving, since_built>>
    /\ UNCHANGED <<model_diffvars, parked>>

\* Lines 127-130, outside any try: self.engine.t and self.engine.y.
GET_CURRENT_VAL ==
    /\ Serving
    /\ command' = "GET_CURRENT_VAL"
    /\ response' = IF HasEngine
                   THEN [type |-> "CurrentValResponse", t |-> t, y |-> y]
                   ELSE Escaped("AttributeError")
    /\ UNCHANGED <<evars, bound, restart_needed, watching, solving, since_built>>
    /\ UNCHANGED <<model_diffvars, parked>>

\* ------------------------------------------------- Session._set_watching_var
\* A faulty variant: the names are added to the list already stored.
SET_WATCHING_VAR_extends(names) ==
    /\ Serving
    /\ command' = "SET_WATCHING_VAR"
    /\ watching' = watching \o names
    /\ response' = Success
    /\ UNCHANGED <<evars, bound, restart_needed, solving, since_built>>
    /\ UNCHANGED <<model_diffvars, parked>>

\* A faulty variant: the list is kept in one place for all sessions.
SET_WATCHING_VAR_shared(names) ==
    /\ Serving
    /\ command' = "SET_WATCHING_VAR"
    /\ watching' = names
    /\ parked' = [parked EXCEPT !.watching = names]
    /\ response' = Success
    /\ UNCHANGED <<evars, bound, restart_needed, solving, since_built, model_diffvars>>

\* Line 137: self.watching = parameter.vars.
SET_WATCHING_VAR(names) ==
    /\ Serving
    /\ command' = "SET_WATCHING_VAR"
    /\ watching' = names
    /\ response' = Success
    /\ UNCHANGED <<evars, bound, restart_needed, solving, since_built>>
    /\ UNCHANGED <<model_diffvars, parked>>

\* ----------------------------------------------------- Session._change_time
\* A faulty variant: the time is set and the stepper is kept.
CHANGE_TIME_keeps_stepper(ta, options) ==
    /\ Serving
    /\ command' = "CHANGE_TIME"
    /\ HasEngine /\ ~options.unknown
    /\ t' = ta
    /\ restart_needed' = "False"
    /\ response' = Success
    /\ UNCHANGED <<y, init_step, min_step, max_step, solver, ts, interpolants, model, pc, call>>
    /\ UNCHANGED <<bound, watching, solving, since_built>>
    /\ UNCHANGED <<model_diffvars, parked>>

\* Lines 184-193: self.engine.restart(parameter.t, **parameter.options), then
\* self.restart_needed = False.  parameter.t is a number, never None; an
\* unknown option raises TypeError before restart runs.
CHANGE_TIME(ta, options) ==
    /\ Serving
    /\ command' = "CHANGE_TIME"
    /\ IF HasEngine /\ ~options.unknown
       THEN /\ restart(ta, NoneVec, options.init_step, options.min_step, options.max_step)
            /\ restart_needed' = "False"
            /\ response' = Success
       ELSE /\ response' = Failure(IF HasEngine THEN "TypeError" ELSE "AttributeError")
            /\ UNCHANGED <<evars, restart_needed>>
    /\ UNCHANGED <<bound, watching, solving, since_built>>
    /\ UNCHANGED <<model_diffvars, parked>>

\* --------------------------------------------------- Session._set_model_const
\* The names a SET_MODEL_CONST may carry: a constant of the model, the
\* attribute that holds the variable names, and the read-only property.
Constant == "k"
ConstNames == {Constant, "_diffvars", "diffvars"}

\* Lines 202-211: setattr(self.model, name, value) for the entry of valmap,
\* whatever attribute the name denotes (a property without setter raises
\* AttributeError); the flag restart_needed is not touched.  The constants
\* enter the derivatives the stepper computes; what is kept of them is that
\* they were altered.
SET_MODEL_CONST(name) ==
    /\ Serving
    /\ command' = "SET_MODEL_CONST"
    /\ response' = IF HasModel /\ name # "diffvars" THEN Success ELSE Failure("AttributeError")
    /\ model_diffvars' = IF HasModel /\ name = "_diffvars"
                         THEN PyScalar("float", MaxVal) ELSE model_diffvars
    /\ since_built' = IF bound = "both" /\ name = Constant
                      THEN since_built \cup {"const"} ELSE since_built
    /\ UNCHANGED <<evars, bound, restart_needed, watching, solving, parked>>

\* --------------------------------------------------- Session._eval_model_var
\* Lines 219-233: engine.eval inside the try; without an engine self.engine
\* raises AttributeError there.
EVAL_MODEL_VAR(ta, ya, returns) ==
    /\ Serving
    /\ command' = "EVAL_MODEL_VAR"
    /\ IF HasEngine
       THEN /\ eval_model_var(ta, ya, returns)
            /\ response' = IF call'.outcome = "ok"
                           THEN [type |-> "ValueArrayResponse"]
                           ELSE Failure(call'.outcome)
       ELSE /\ response' = Failure("AttributeError")
            /\ UNCHANGED evars
    /\ UNCHANGED <<bound, restart_needed, watching, solving, since_built>>
    /\ UNCHANGED <<model_diffvars, parked>>

\* ------------------------------------------------- Session._call_model_method

MethodResults ==
    {PyScalar("float", 1),
     PyScalar("int", 1),
     PyItems("list", <<PyScalar("float", 1), PyScalar("float", 0)>>),
     PyItems("tuple", <<PyItems("list", <<PyScalar("str", 1), PyScalar("str", 0)>>), PyScalar("int", 2)>>),
     PyItems("tuple", <<PyScalar("float", 0), PyItems("list", <<>>), PyScalar("float", 1)>>),
     PyItems("tuple", <<>>),
     PyItems("list", <<PyItems("list", <<PyScalar("float", 1)>>)>>),
     PyNone}

\* numpy.isscalar(value).
IsScalar(value) == value.py \in {"float", "int", "str"}

\* _build_generic_value: float, then "isinstance(value, (int, np.int))", which
\* raises AttributeError where numpy has no attribute int (np_int = FALSE),
\* then str, then TypeError.
GenericRaises(value, np_int) == value.py # "float" /\ (~np_int \/ value.py \notin {"int", "str"})
GenericValue(value) ==
    [field |-> IF value.py = "float" THEN "real"
               ELSE IF value.py = "int" THEN "integer" ELSE "string",
     v |-> value.v]

\* _build_scalar_or_array_value; iterating a value that is neither a scalar
\* nor a sequence raises TypeError.
BuildRaises(value, np_int) ==
    IF IsScalar(value) THEN GenericRaises(value, np_int)
    ELSE IF value.py \in {"list", "tuple"}
         THEN \E i \in 1..Len(value.items) : GenericRaises(value.items[i], np_int)
         ELSE TRUE
BuildScalarOrArrayValue(value) ==
    IF IsScalar(value)
    THEN [isscalar |-> TRUE, value |-> <<GenericValue(value)>>]
    ELSE [isscalar |-> FALSE,
          value |-> [i \in 1..Len(value.items) |-> GenericValue(value.items[i])]]

\* Lines 247-254: the values of a tuple, or the one value.
Returned(rv) == IF rv.py = "tuple" THEN rv.items ELSE <<rv>>

\* Lines 241-244 run outside the try (args_ok = FALSE: an argument flagged
\* scalar that carries no value, values[0] raises IndexError); lines
\* 245-263: the method returns rv (calls = TRUE) or the call raises.
CALL_MODEL_METHOD(args_ok, calls, rv, np_int) ==
    /\ Serving
    /\ command' = "CALL_MODEL_METHOD"
    /\ response' =
        IF ~args_ok THEN Escaped("IndexError")
        ELSE IF ~HasModel THEN Failure("AttributeError")
        ELSE IF ~calls THEN Failure("raised")
        ELSE IF \E i \in 1..Len(Returned(rv)) : BuildRaises(Returned(rv)[i], np_int)
        THEN Failure(IF np_int THEN "TypeError" ELSE "AttributeError")
        ELSE [type |-> "MethodReturnResponse",
              return_value |-> [i \in 1..Len(Returned(rv)) |->
                                    BuildScalarOrArrayValue(Returned(rv)[i])]]
    /\ UNCHANGED <<evars, bound, restart_needed, watching, solving, since_built>>
    /\ UNCHANGED <<model_diffvars, parked>>

\* ------------------------------------------------------- Session._solve_ivp
\* Attributes of the model that calc_ode computes for every sample (a derived
\* variable and a differential variable), and a name the model does not have.
Attributes == {"ydot", diffvars[1]}
NoAttribute == "nope"
\* The lists SET_WATCHING_VAR is given.
WatchLists == {<<>>, <<"ydot">>, <<diffvars[1], "ydot">>, <<NoAttribute>>}

\* The values of one attribute over all samples of a time grid.
Samples == -4

\* numpy.arange(a, b, d) for d > 0: a, a + d, a + 2d, ... below b.
Arange(a, b, d) ==
    [i \in 1..(IF b <= a THEN 0 ELSE ((b - a - 1) \div d) + 1) |-> a + (i - 1) * d]

\* Lines 148-153: the restart that a set flag asks for, then tprev and tstep.
\* self.restart_needed or self.engine may not exist yet (AttributeError).
SOLVE_IVP(tn, output_interval) ==
    /\ Serving
    /\ command' = "SOLVE_IVP"
    /\ IF restart_needed = "unset" \/ ~HasEngine
       THEN /\ response' = Failure("AttributeError")
            /\ UNCHANGED <<evars, restart_needed, solving, since_built>>
       ELSE /\ IF restart_needed = "True"
               THEN restart(None, NoneVec, None, None, None)
               ELSE UNCHANGED evars
            /\ restart_needed' = "False"
            /\ UNCHANGED since_built
            /\ solving' = [at |-> "restarted", tprev |-> t, tn |-> tn,
                           output_interval |-> output_interval]
            /\ response' = NoResponse
    /\ UNCHANGED <<bound, watching>>
    /\ UNCHANGED <<model_diffvars, parked>>

\* Line 154, the call of self.engine.solve_ivp(parameter.tn).
SOLVE_IVP_call ==
    /\ solving.at = "restarted"
    /\ solve_ivp_begin(solving.tn)
    /\ solving' = [solving EXCEPT !.at = "solving"]
    /\ since_built' = IF HasNoSolver THEN {} ELSE since_built
    /\ UNCHANGED <<bound, restart_needed, watching, command, response>>
    /\ UNCHANGED <<model_diffvars, parked>>

\* The engine's solve_ivp running for the session.
SOLVE_IVP_stepping ==
    /\ solving.at = "solving"
    /\ Stepping
    /\ UNCHANGED svars

\* Lines 155-176, after solve_ivp returned or raised: the time grid
\* (numpy.arange raises on a zero interval: ZeroDivisionError, or ValueError
\* where the division yields infinity), sol(tout) (which raises ValueError
\* on an empty grid), the watched attributes read through
\* engine.eval(lambda, tout, y), and the response.
SOLVE_IVP_respond ==
    /\ solving.at = "solving"
    /\ pc = "idle"
    /\ LET tout == IF solving.output_interval = 0 THEN <<>>
                   ELSE Arange(solving.tprev, solving.tn + solving.output_interval,
                               solving.output_interval)
           evaluates == call.outcome = "ok" /\ tout # <<>> /\ watching # <<>>
       IN  /\ model' = IF evaluates
                       THEN EvalOde(model, "eval", Samples, [i \in 1..Len(y) |-> Samples])
                       ELSE model
           /\ response' =
                IF call.outcome = "SolverError" THEN Failure(call.message)
                ELSE IF call.outcome # "ok" THEN Failure(call.outcome)
                ELSE IF solving.output_interval = 0 THEN Failure("ZeroDivisionError")
                ELSE IF tout = <<>> THEN Failure("ValueError")
                ELSE IF \E i \in 1..Len(watching) : watching[i] \notin Attributes
                THEN Failure("AttributeError")
                ELSE [type |-> "SolutionResponse",
                      t |-> tout,
                      diffvars |-> [i \in 1..Len(y) |-> [of |-> diffvars[i], n |-> Len(tout)]],
                      watching_vars |-> [i \in 1..Len(watching) |->
                                            [of |-> watching[i], n |-> Len(tout)]]]
    /\ solving' = NotSolving
    /\ UNCHANGED <<t, y, init_step, min_step, max_step, solver, ts, interpolants, pc, call>>
    /\ UNCHANGED <<bound, restart_needed, watching, since_built, command>>
    /\ UNCHANGED <<model_diffvars, parked>>

\* --------------------------------------------------------------- Session.main
\* Line 59: websocket.send(...) of the response that process returned; the
\* loop then waits for the next message.
main_send ==
    /\ solving.at = "ready"
    /\ response.type \notin {"none", "escaped"}
    /\ response' = NoResponse
    /\ command' = "none"
    /\ UNCHANGED <<evars, bound, restart_needed, watching, solving, since_built>>
    /\ UNCHANGED <<model_diffvars, parked>>

\* ------------------------------------------------------------ Session.process
\* Line 77 for a command code that COMMAND_FUNCS does not hold: KeyError.
UNKNOWN_COMMAND ==
    /\ Serving
    /\ command' = "unknown"
    /\ response' = Escaped("KeyError")
    /\ UNCHANGED <<evars, bound, restart_needed, watching, solving, since_built>>
    /\ UNCHANGED <<model_diffvars, parked>>

\* The sampling intervals SOLVE_IVP is given.
MaxInterval == 2
Intervals == 0..MaxInterval

\* The engine's part of a SOLVE_IVP that was accepted, and the sending of
\* each response.
SessionRuns ==
    \/ SOLVE_IVP_call
    \/ SOLVE_IVP_stepping
    \/ SOLVE_IVP_respond
    \/ main_send

\* A client that initializes, writes variables and constants, changes the
\* time and advances.
NextSession ==
    \/ \E resolves \in BOOLEAN, ta \in {0, MaxTime}, options \in OptionMaps :
            INIT(resolves, ta, options)
    \/ SET_DIFFVAR_VAL([n \in {diffvars[1]} |-> MaxVal])
    \/ \E tn \in Times : SOLVE_IVP(tn, 1)
    \/ \E ta \in Times, options \in OptionMaps : CHANGE_TIME(ta, options)
    \/ SET_MODEL_CONST(Constant)
    \/ SessionRuns

SpecSession == Init /\ [][NextSession]_vars

\* A client that chooses what to watch and advances with any sampling interval.
NextOutputs ==
    \/ INIT(TRUE, 0, NoOptions)
    \/ \E names \in WatchLists : SET_WATCHING_VAR(names)
    \/ \E tn \in Times, output_interval \in Intervals : SOLVE_IVP(tn, output_interval)
    \/ SessionRuns

SpecOutputs == Init /\ [][NextOutputs]_vars

\* A client that sends any command, before and after INIT.
NextCommands ==
    \/ \E resolves \in BOOLEAN, options \in OptionMaps : INIT(resolves, MaxTime, options)
    \/ \E valmap \in {[n \in {diffvars[1]} |-> MaxVal], [n \in {Undeclared} |-> MaxVal]} :
            SET_DIFFVAR_VAL(valmap)
    \/ GET_DIFFVAR_NAME
    \/ GET_CURRENT_VAL
    \/ SET_WATCHING_VAR(<<"ydot">>)
    \/ SOLVE_IVP(MaxTime, 1)
    \/ CHANGE_TIME(0, NoOptions)
    \/ SET_MODEL_CONST(Constant)
    \/ \E ya \in {<<>>, FullVec}, returns \in BOOLEAN : EVAL_MODEL_VAR(MaxTime, ya, returns)
    \/ \E args_ok \in BOOLEAN, calls \in BOOLEAN, rv \in MethodResults, np_int \in BOOLEAN :
            CALL_MODEL_METHOD(args_ok, calls, rv, np_int)
    \/ UNKNOWN_COMMAND
    \/ SessionRuns

SpecCommands == Init /\ [][NextCommands]_vars

\* ---------------------------------------------------------------- properties
\* The step that enters solve_ivp, and the step that leaves it.
Enters == pc = "idle" /\ pc' = "loop"
Leaves == pc = "loop" /\ pc' = "idle"

\* C1: solve_ivp builds a stepper exactly when the engine has none; an
\* advance issued while a stepper exists keeps that stepper as it is (its
\* own time and state vector, not the engine's t and y).
C1_StepperBuiltOnlyWhenAbsent ==
    [][Enters =>
        /\ (solver.status = "none" => solver'.status = "running" /\ solver'.t = t /\ solver'.y = y)
        /\ (solver.status # "none" => solver' = solver)]_vars

\* An advance runs on a stepper left by an earlier call (its only segment
\* ends at or after the target before any step), and the stepper's time is
\* not the engine's time.
C1_Witness ==
    /\ pc = "loop"
    /\ solver.status = "running"
    /\ Len(interpolants) = 1
    /\ ts[1] >= call.tn
    /\ solver.t # t

\* C4 as claimed: an advance to a target before the engine's time never
\* returns a solution.
C4_BackwardAdvanceFails ==
    [][(Leaves /\ call.tn < t) => call'.outcome # "ok"]_vars

\* C5 as claimed: no step other than a restart lowers the engine's time.
C5_TimeNeverDecreases ==
    [][call'.op # "restart" => t' >= t]_vars

\* C6: when solve_ivp(tn) returns, the engine's time is tn.
C6_TimeIsTarget ==
    [][(Leaves /\ call'.outcome = "ok") => t' = call.tn]_vars

\* An advance returned although the stepper's last step ended beyond the
\* target: the engine's time is before the last retained timestamp.
C6_Witness ==
    /\ call.op = "solve_ivp"
    /\ call.outcome = "ok"
    /\ Len(ts) >= 2
    /\ ts[Len(ts) - 1] < t
    /\ t < Last(ts)

\* C2: a restart leaves the engine without a stepper, and an advance that
\* finds none seeds the new stepper with the time, the state vector and the
\* step bounds the engine holds at that moment, and resets the history to
\* the single timestamp t with no segment.
C2_RestartThenFreshSeed ==
    /\ [][call'.op = "restart" => solver'.status = "none"]_vars
    /\ [][(Enters /\ solver.status = "none") =>
            /\ solver' = [status |-> "running", t |-> t, y |-> y,
                          first_step |-> init_step, min_step |-> min_step,
                          max_step |-> max_step]
            /\ ts' = <<t>>
            /\ interpolants' = <<>>]_vars

\* An advance has just seeded a stepper at a time written by restart, with a
\* vector written by set_diffvar_values, an init_step written by restart and
\* the min_step of construction, while older history had existed.
C2_Witness ==
    /\ pc = "loop"
    /\ ts = <<t>>
    /\ interpolants = <<>>
    /\ t = 1
    /\ solver.t = 1
    /\ solver.y = <<0, MaxVal>>
    /\ solver.first_step = 1
    /\ solver.min_step = 0

\* C3: restart overwrites exactly the supplied fields among t, y, init_step,
\* min_step, max_step, keeps every other one, and takes a t of 0 as supplied.
C3_RestartOverwritesSupplied ==
    [][call'.op = "restart" =>
        /\ \A ta \in {None} \cup Times :
            restart_t(ta) => t' = (IF ta \in Times THEN ta ELSE t)
        /\ \A ya \in {NoneVec} \cup ArgVecs :
            restart_y(ya) => y' = (IF ya \in ArgVecs THEN ya ELSE y)
        /\ \A ia \in {None} \cup Bounds :
            restart_init_step(ia) => init_step' = (IF ia \in Bounds THEN ia ELSE init_step)
        /\ \A mina \in {None} \cup Bounds :
            restart_min_step(mina) => min_step' = (IF mina \in Bounds THEN mina ELSE min_step)
        /\ \A maxa \in {None} \cup Bounds :
            restart_max_step(maxa) => max_step' = (IF maxa \in Bounds THEN maxa ELSE max_step)]_vars

\* A restart given t = 0 has put the time to 0 in an engine whose history
\* starts later than 0, with init_step supplied at some point and min_step
\* and max_step never.
C3_Witness ==
    /\ call.op = "restart"
    /\ call.tn = 0
    /\ t = 0
    /\ Len(ts) >= 2
    /\ ts[1] > 0
    /\ init_step = 1
    /\ min_step = 0
    /\ max_step = Inf

C8_EvalKeepsEngine ==
    [][call'.op \in {"eval", "EVAL_MODEL_VAR"} =>
        UNCHANGED <<t, y, solver, ts, interpolants, init_step, min_step, max_step>>]_vars

\* An eval whose callback raised, on an engine with a running stepper that
\* is ahead of the engine's time; the model was recomputed for it.
C8_Witness ==
    /\ call.op = "eval"
    /\ call.outcome = "raised"
    /\ model.computed_for = "eval"
    /\ solver.status = "running"
    /\ Len(interpolants) = 1
    /\ solver.t > t

\* C9 as claimed: the state vector always has one entry per declared variable.
C9_LengthAlwaysDeclared == Len(y) = Len(diffvars)

\* C9, amended: only a restart that is given a y of another length changes
\* the number of entries of the state vector.
C9_LengthKeptButByRestartY ==
    [][Len(y) = Len(diffvars) =>
        \/ Len(y') = Len(diffvars)
        \/ /\ call'.op = "restart"
           /\ \E ya \in ArgVecs : Len(ya) # Len(diffvars) /\ restart_y(ya)]_vars

\* A restart has replaced the state vector by one of the declared length,
\* on an engine that had advanced.
C9_Witness ==
    /\ call.op = "restart"
    /\ y = [i \in 1..Len(diffvars) |-> MaxVal]
    /\ Len(ts) >= 2
    /\ t > 0

\* The dictionary get_diffvar_values returns on yy is what set_diffvar_values
\* of vdict should leave, seen from the vector before.
RoundTrip(before, vdict, after) ==
    /\ ~GetRaises(after)
    /\ DOMAIN GetValues(after) = Declared
    /\ \A n \in Declared :
        GetValues(after)[n] = IF n \in DOMAIN vdict THEN vdict[n] ELSE GetValues(before)[n]

\* C10 as claimed: for every mapping over declared names, in every state.
C10_SetThenGet ==
    [][call'.op = "set_diffvar_values" =>
        \A vdict \in UNION {[D -> Values] : D \in SUBSET Declared} :
            set_diffvar_values(vdict) =>
                call'.outcome = "ok" /\ ~GetRaises(y) /\ RoundTrip(y, vdict, y')]_vars

\* C10, amended: the same when the state vector has an entry for every
\* declared variable.
C10_SetThenGetWhenLongEnough ==
    [][(call'.op = "set_diffvar_values" /\ Len(y) >= Len(diffvars)) =>
        \A vdict \in UNION {[D -> Values] : D \in SUBSET Declared} :
            set_diffvar_values(vdict) =>
                call'.outcome = "ok" /\ RoundTrip(y, vdict, y')]_vars

\* A set_diffvar_values wrote one variable and left the other, on an engine
\* that had advanced.
C10_Witness ==
    /\ call.op = "set_diffvar_values"
    /\ call.outcome = "ok"
    /\ y = <<MaxVal, 0>>
    /\ Len(ts) >= 2

\* C20: whenever Engine.eval runs its callback, the model's differential
\* variables hold the entries of the y that was given (of the engine's y when
\* y was omitted), calc_ode was last run, by eval, with the t that was given
\* (the engine's t when t was omitted), and the one defaults without the other.
C20_EvalAtGivenPoint ==
    [][(call'.op = "eval" /\ call'.outcome # "IndexError") =>
        \A ta \in EvalTimes, ya \in {NoneVec} \cup ArgVecs :
            eval(ta, ya, call'.outcome = "ok") =>
                /\ model'.computed_for = "eval"
                /\ model'.t = (IF ta = None THEN t ELSE ta)
                /\ \A i \in 1..Len(IF ya = NoneVec THEN y ELSE ya) :
                       model'.y[i] = (IF ya = NoneVec THEN y ELSE ya)[i]]_vars

\* A callback ran at a given time 0, different from the engine's, on the
\* engine's own state vector, whose entries differ from each other.
C20_Witness ==
    /\ call.op = "eval"
    /\ call.outcome = "ok"
    /\ model.computed_for = "eval"
    /\ model.t = 0
    /\ t = MaxTime
    /\ model.y = <<MaxVal, 0>>
    /\ y = <<MaxVal, 0>>

\* C11 as claimed: SET_DIFFVAR_VAL with a mapping that holds an undeclared
\* name is answered with a failure.
C11_UndeclaredNameRejected ==
    [][(command' = "SET_DIFFVAR_VAL" /\ SET_DIFFVAR_VAL([n \in {Undeclared} |-> MaxVal])) =>
        (response'.type = "StatusResponse" /\ ~response'.success)]_vars

\* C12 as claimed: every command is answered, no exception leaves process.
C12_EveryCommandAnswered == response.type # "escaped"

\* C13: a SOLVE_IVP never calls solve_ivp on a stepper that was constructed
\* before a SET_DIFFVAR_VAL: the engine was restarted, the stepper is built
\* from the engine's current time and state vector; and restart_needed is
\* False after a successful INIT, a successful CHANGE_TIME, and once
\* SOLVE_IVP has passed its restart.
C13_WrittenValuesRestart ==
    /\ [][(Enters /\ "diffvar" \in since_built) =>
            /\ solver.status = "none"
            /\ solver'.t = t /\ solver'.y = y
            /\ ts' = <<t>>]_vars
    /\ [][(/\ command' \in {"INIT", "CHANGE_TIME"}
           /\ response'.type = "StatusResponse"
           /\ response'.success) => restart_needed' = "False"]_vars
    /\ [][(solving.at = "ready" /\ solving'.at = "restarted") =>
            /\ restart_needed' = "False"
            /\ restart_needed = "True" => solver'.status = "none"]_vars

\* A SOLVE_IVP built a stepper from a value that SET_DIFFVAR_VAL wrote after
\* an earlier stepper had run.
C13_Witness ==
    /\ command = "SOLVE_IVP"
    /\ pc = "loop"
    /\ ts = <<t>>
    /\ solver.t = t
    /\ solver.y = <<MaxVal, 0>>
    /\ model.computed_for = "stepper"
    /\ restart_needed = "False"
    /\ t > 0

\* C14 as claimed: a SOLVE_IVP never calls solve_ivp on a stepper that was
\* constructed before a SET_MODEL_CONST.
C14_AlteredConstantsRestart ==
    [][(Enters /\ "const" \in since_built) => solver.status = "none"]_vars

\* C15 as claimed: the time grid of a SOLVE_IVP issued at tprev <= tn starts
\* at tprev, advances by the output interval, ends with tn and holds no
\* sample later than tn.
C15_GridEndsAtTarget ==
    [][(response'.type = "SolutionResponse" /\ solving.tprev <= solving.tn) =>
        /\ response'.t[1] = solving.tprev
        /\ \A i \in 1..(Len(response'.t) - 1) :
               response'.t[i + 1] = response'.t[i] + solving.output_interval
        /\ response'.t[Len(response'.t)] = solving.tn
        /\ \A i \in 1..Len(response'.t) : response'.t[i] <= solving.tn]_vars

\* C16: a SolutionResponse holds one sequence per declared variable in
\* declaration order and one per name of the stored watch list in list
\* order, each as long as the time grid; SET_WATCHING_VAR stores exactly the
\* list it is given.
C16_OneSequencePerName ==
    /\ [][response'.type = "SolutionResponse" =>
            /\ Len(response'.diffvars) = Len(diffvars)
            /\ \A i \in 1..Len(diffvars) :
                   /\ response'.diffvars[i].of = diffvars[i]
                   /\ response'.diffvars[i].n = Len(response'.t)
            /\ Len(response'.watching_vars) = Len(watching)
            /\ \A i \in 1..Len(watching) :
                   /\ response'.watching_vars[i].of = watching[i]
                   /\ response'.watching_vars[i].n = Len(response'.t)]_vars
    /\ [][\A names \in WatchLists : SET_WATCHING_VAR(names) => watching' = names]_vars

\* A response over a grid of three samples with the two watched names of
\* the stored list.
C16_Witness ==
    /\ response.type = "SolutionResponse"
    /\ Len(response.t) = 3
    /\ Len(response.diffvars) = 2
    /\ watching = <<diffvars[1], "ydot">>
    /\ Len(response.watching_vars) = 2
    /\ response.watching_vars[2] = [of |-> "ydot", n |-> 3]

\* C17: a successful INIT, from any session state, leaves the session bound
\* to a new model and a new engine: the time is the t of the request, the
\* state vector is one zero per declared variable, there is no stepper and no
\* segment, and restart_needed is False.
C17_InitBindsFreshEngine ==
    [][(/\ command' = "INIT"
        /\ response'.type = "StatusResponse"
        /\ response'.success) =>
            /\ bound' = "both"
            /\ model' = NewModel
            /\ y' = [i \in 1..Len(diffvars) |-> 0]
            /\ solver' = NoSolver
            /\ ts' = <<>> /\ interpolants' = <<>>
            /\ restart_needed' = "False"
            /\ \A ta \in Times, options \in OptionMaps :
                   INIT(TRUE, ta, options) => t' = ta]_vars

\* A successful INIT at a time other than zero, with step bounds given.
C17_Witness ==
    /\ command = "INIT"
    /\ response = Success
    /\ bound = "both"
    /\ t = MaxTime
    /\ init_step = MaxBound
    /\ y = <<0, 0>>
    /\ solver = NoSolver
    /\ restart_needed = "False"

C19_ResultReportedEntryByEntry ==
    [][\A rv \in MethodResults, np_int \in BOOLEAN :
        LET Plain(v) == v.py \in {"float", "int", "str"}
            Reportable(v) ==
                \/ Plain(v)
                \/ v.py = "list" /\ \A j \in 1..Len(v.items) : Plain(v.items[j])
            Entry(e, v) ==
                /\ e.isscalar = Plain(v)
                /\ IF Plain(v)
                   THEN Len(e.value) = 1 /\ e.value[1].v = v.v
                   ELSE /\ Len(e.value) = Len(v.items)
                        /\ \A j \in 1..Len(v.items) : e.value[j].v = v.items[j].v
            values == IF rv.py = "tuple" THEN rv.items ELSE <<rv>>
        IN  (/\ HasModel
             /\ \A i \in 1..Len(values) : Reportable(values[i])
             /\ CALL_MODEL_METHOD(TRUE, TRUE, rv, np_int)) =>
                /\ response'.type = "MethodReturnResponse"
                /\ Len(response'.return_value) = Len(values)
                /\ \A i \in 1..Len(values) : Entry(response'.return_value[i], values[i])]_vars

\* ======================================================= repeated advances
\* Largest target of a caller that advances again and again.
MaxTarget == 3
Targets == 0..MaxTarget

\* A caller that advances to any target, goes on after a failed advance, and
\* restarts at time 0, so that every history it builds begins at time 0.
NextAdvance ==
    \/ restart(0, NoneVec, None, None, None) /\ NoSession
    \/ \E tn \in Targets : solve_ivp_begin(tn) /\ NoSession
    \/ Stepping /\ NoSession

SpecAdvance == Init /\ [][NextAdvance]_vars

\* solve_ivp is one synchronous call: once entered, its loop keeps running
\* until it returns or raises.
SpecAdvanceFair == SpecAdvance /\ WF_vars(Stepping /\ NoSession)

\* C21 as claimed: when solve_ivp(tn) returns for a target not before the
\* engine's time, the retained timestamps reach from the time before the
\* call (or earlier) to tn (or later).
C21_SolutionCoversTheAdvance ==
    [][(Leaves /\ call'.outcome = "ok" /\ t <= call.tn) =>
        (ts[1] <= t /\ Last(ts) >= call.tn)]_vars

\* C23: an advance that finds a stepper keeps of the history the last two
\* timestamps (all of them if there are fewer) and the last segment (none if
\* there is none), in order; however many advances follow each other, the
\* history never holds more than that window and one timestamp per step of
\* the running call.
C23_HistoryCutToWindow ==
    /\ [][(Enters /\ solver.status # "none") =>
            /\ Len(ts') = (IF Len(ts) < 2 THEN Len(ts) ELSE 2)
            /\ \A i \in 1..Len(ts') : ts'[i] = ts[Len(ts) - Len(ts') + i]
            /\ Len(interpolants') = (IF Len(interpolants) < 1 THEN 0 ELSE 1)
            /\ \A i \in 1..Len(interpolants') :
                   interpolants'[i] = interpolants[Len(interpolants) - Len(interpolants') + i]]_vars
    /\ [](Len(ts) <= 2 + MaxTarget /\ Len(interpolants) <= 1 + MaxTarget)

\* An advance on an existing stepper has cut the history: two timestamps and
\* one segment are left, and the timestamp 0 every history began with is gone.
C23_Witness ==
    /\ pc = "loop"
    /\ call.op = "solve_ivp"
    /\ Len(ts) = 2
    /\ Len(interpolants) = 1
    /\ ts[1] > 0
    /\ Last(ts) < call.tn

\* C24: whenever the engine has a history, its timestamps strictly increase
\* and segment i spans timestamps i and i + 1, so there is one timestamp more
\* than there are segments.
C24_HistoryIsContiguous ==
    ts # <<>> =>
        /\ Len(ts) = Len(interpolants) + 1
        /\ \A i \in 1..Len(interpolants) :
               /\ ts[i] < ts[i + 1]
               /\ interpolants[i].t_old = ts[i]
               /\ interpolants[i].t = ts[i + 1]

\* The history left by an advance that continued an existing stepper, cut
\* the older history and recorded a step.
C24_Witness ==
    /\ pc = "idle"
    /\ call.outcome = "ok"
    /\ Len(ts) = 3
    /\ Len(interpolants) = 2
    /\ ts[1] > 0
    /\ interpolants[2] = [t_old |-> ts[2], t |-> ts[3]]

\* C25 as claimed: when solve_ivp(tn) returns for a target not before the
\* engine's time, tn lies between the last two retained timestamps, the span
\* of the segment the new state vector is read from.
C25_TargetInsideLastSegment ==
    [][(Leaves /\ call'.outcome = "ok" /\ t <= call.tn) =>
        /\ Len(ts) >= 2
        /\ ts[Len(ts) - 1] <= call.tn
        /\ call.tn <= Last(ts)]_vars

\* C28 as claimed: solve_ivp(tn) with tn equal to the engine's time returns
\* and leaves the time as it is.
C28_AdvanceToCurrentTimeSucceeds ==
    [][(Leaves /\ call.tn = t) => (call'.outcome = "ok" /\ t' = t)]_vars

\* C26: every solve_ivp that was entered leaves its loop; each iteration
\* that stays in the loop records one timestamp later than the last, and a
\* call that returns has recorded a time at or after its target.
C26_AdvanceTerminates ==
    /\ (pc = "loop") ~> (pc = "idle")
    /\ [][(pc = "loop" /\ pc' = "loop") =>
            (Len(ts') = Len(ts) + 1 /\ Last(ts') > Last(ts))]_vars
    /\ [][(Leaves /\ call'.outcome = "ok") => Last(ts) >= call.tn]_vars

\* An advance that needed as many steps as its target allows has returned.
C26_Witness ==
    /\ pc = "idle"
    /\ call.op = "solve_ivp"
    /\ call.outcome = "ok"
    /\ t = MaxTarget
    /\ Len(ts) = MaxTarget + 1

\* ============================================================ names of a model
\* A client that initializes, writes attributes of the model by
\* SET_MODEL_CONST, asks for the variable names and the current values, and
\* changes the time.
NextNames ==
    \/ \E resolves \in BOOLEAN, ta \in {0, MaxTime}, options \in OptionMaps :
            INIT(resolves, ta, options)
    \/ \E name \in ConstNames : SET_MODEL_CONST(name)
    \/ GET_DIFFVAR_NAME
    \/ GET_CURRENT_VAL
    \/ \E ta \in Times, options \in OptionMaps : CHANGE_TIME(ta, options)
    \/ main_send

SpecNames == Init /\ [][NextNames]_vars

\* C27 as claimed: in a session whose INIT succeeded, GET_DIFFVAR_NAME is
\* answered with the names the model declared, in declaration order,
\* whatever commands were processed since.
C27_NamesStayAsDeclared ==
    [][(command' = "GET_DIFFVAR_NAME" /\ bound = "both") =>
        (response'.type = "DiffvarNameResponse" /\ response'.names = diffvars)]_vars

\* C29 as claimed: an INIT that fails in a session that has an engine leaves
\* model, engine and restart_needed as they were, and wherever the session
\* has an engine, Session.model is that engine's model.
C29_FailedInitKeepsBinding ==
    /\ [][(/\ command' = "INIT"
           /\ response'.type = "StatusResponse"
           /\ ~response'.success
           /\ HasEngine) =>
                (bound' = bound /\ UNCHANGED <<evars, restart_needed>>)]_vars
    /\ [](HasEngine => bound = "both")

\* C30 as claimed: when SOLVE_IVP answers with a failure although the
\* engine's solve_ivp returned, the engine's time is the time it had when
\* the command arrived.
C30_FailedSolveKeepsTime ==
    [][(/\ solving.at = "solving"
        /\ solving'.at = "ready"
        /\ call.outcome = "ok"
        /\ response'.type = "StatusResponse") => t' = solving.tprev]_vars

\* ================================================================ two sessions
\* websockets.serve(Session.main, ...) runs Session.main once per connection,
\* each with its own Session (line 55), all in one event loop.  process has
\* no await: the loop passes from one session to another only between two
\* commands.  The variables hold the session whose command is processed,
\* parked holds the other one.
Here ==
    [t |-> t, y |-> y, init_step |-> init_step, min_step |-> min_step,
     max_step |-> max_step, solver |-> solver, ts |-> ts,
     interpolants |-> interpolants, model |-> model, pc |-> pc, call |-> call,
     bound |-> bound, restart_needed |-> restart_needed, watching |-> watching,
     solving |-> solving, since_built |-> since_built, command |-> command,
     response |-> response, model_diffvars |-> model_diffvars]

\* The event loop resumes the other session.
main_switch ==
    /\ Serving
    /\ parked' = Here
    /\ t' = parked.t
    /\ y' = parked.y
    /\ init_step' = parked.init_step
    /\ min_step' = parked.min_step
    /\ max_step' = parked.max_step
    /\ solver' = parked.solver
    /\ ts' = parked.ts
    /\ interpolants' = parked.interpolants
    /\ model' = parked.model
    /\ pc' = parked.pc
    /\ call' = parked.call
    /\ bound' = parked.bound
    /\ restart_needed' = parked.restart_needed
    /\ watching' = parked.watching
    /\ solving' = parked.solving
    /\ since_built' = parked.since_built
    /\ command' = parked.command
    /\ response' = parked.response
    /\ model_diffvars' = parked.model_diffvars

\* Two clients, each of which initializes, writes a variable, chooses what to
\* watch and advances.
NextSessions ==
    \/ \E ta \in {0, MaxTime} : INIT(TRUE, ta, NoOptions)
    \/ SET_DIFFVAR_VAL([n \in {diffvars[1]} |-> MaxVal])
    \/ SET_WATCHING_VAR(<<"ydot">>)
    \/ SOLVE_IVP(MaxTime, 1)
    \/ SessionRuns
    \/ main_switch

SpecSessions == Init /\ [][NextSessions]_vars

\* C22: the other session changes only when the event loop passes to it,
\* and then it is exactly as it was left and the session that was running is
\* kept exactly as it is; an INIT gives the running session a new model and
\* a new engine and leaves the other session's as they are.
C22_SessionsAreIsolated ==
    /\ [][parked' # parked => (Serving /\ parked' = Here /\ Here' = parked)]_vars
    /\ [][(command' = "INIT" /\ response'.type = "StatusResponse") =>
            /\ model' = NewModel /\ solver' = NoSolver /\ bound' = "both"
            /\ parked'.model = parked.model
            /\ parked'.solver = parked.solver
            /\ parked'.t = parked.t /\ parked'.y = parked.y
            /\ parked'.watching = parked.watching
            /\ parked'.restart_needed = parked.restart_needed]_vars

\* Two initialized sessions that differ in time, state vector, stepper,
\* watch list and flag.
C22_Witness ==
    /\ bound = "both" /\ parked.bound = "both"
    /\ t = MaxTime /\ parked.t = 0
    /\ y = <<0, 0>> /\ parked.y = <<MaxVal, 0>>
    /\ solver.status = "running" /\ parked.solver.status = "none"
    /\ watching = <<"ydot">> /\ parked.watching = <<>>
    /\ restart_needed = "False" /\ parked.restart_needed = "True"

\* ==================================================== derivative evaluation
\* The vectors handed to eval_ode: any values, up to one entry more than the
\* model declares.
OdeVecs == UNION {[1..k -> Values] : k \in 0..(Len(diffvars) + 1)}

\* Model.eval_ode(t, y), called on a model whose calc_ode assigns the
\* derivatives of the variables in assigns and of no other.
eval_ode(tt, yy, assigns) ==
    /\ pc = "idle"
    /\ model' = EvalOdeWith(model, "eval_ode", tt, yy, assigns)
    /\ call' = Call("eval_ode", None, IF EvalOdeRaises(yy) THEN "IndexError" ELSE "ok", "")
    /\ UNCHANGED <<t, y, init_step, min_step, max_step, solver, ts, interpolants, pc>>

\* A caller that evaluates the derivatives of models of every kind.
NextOde ==
    \E tt \in Times, yy \in OdeVecs, assigns \in SUBSET (1..Len(diffvars)) :
        eval_ode(tt, yy, assigns) /\ NoSession

SpecOde == Init /\ [][NextOde]_vars

\* C31: the vector eval_ode returns has one entry per entry of y, and each
\* is the der field of a variable that this evaluation created anew: what
\* this calc_ode assigned to it, or the 0 it was created with; never what an
\* earlier evaluation assigned.
C31_DerivativesAreFresh ==
    (call.op = "eval_ode" /\ call.outcome = "ok") =>
        \A i \in 1..Len(model.returned) :
            /\ model.returned[i] \in {"assigned", "zero"}
            /\ model.returned[i] = model.der[i]

\* After an evaluation that assigned both derivatives, an evaluation of a
\* one-entry vector that assigned none returned 0 for the first variable,
\* while the second variable still holds what the earlier one assigned.
C31_Witness ==
    /\ call.op = "eval_ode"
    /\ call.outcome = "ok"
    /\ model.returned = <<"zero">>
    /\ model.der = <<"zero", "stale">>
====
